---- MODULE Spec2Model ----
(***************************************************************************)
(* gawsh: the incremental work-discovery pipeline of main.rs               *)
(* (history walk, clearing of the run-scoped trees, parallel tree walk,    *)
(* parallel render) over the four sled trees revs, oids, oids_todo and     *)
(* oids_dlq, and the merge operator concatenate_merge of sled_helpers.rs.  *)
(***************************************************************************)
EXTENDS Integers, Sequences, FiniteSets, TLC

(* ------------------------------ bounds --------------------------------- *)
\* number of tree entries in the repository, over all its commits (each
\* commit's tree flattened in pre-order)
MaxEntries == 3
\* number of consecutive executions of the program over the same store
MaxRuns == 2
\* largest value of the --depth argument
MaxDepth == 1
\* longest stored value / filename handed to the merge operator alone
MaxValLen == 3
MaxNameLen == 2
\* number of store-write errors injected in one execution
MaxFaults == 1
\* number of work items of one parallel stage handed to the thread pool
MaxItems == 3
\* number of directories above a tree entry
MaxTopo == 2

(* --------------------------- the repository ---------------------------- *)
\* commits reachable from the refs, blob ids, file names (as byte strings)
Revs == {"r1", "r2"}
Oids == {"o1", "o2"}
TreeOid == "t1"
Filenames == {<<1>>, <<2>>}
ObjKinds == {"text", "binary", "missing"}
\* the tree of a commit (find_commit(rev).tree()), and every tree id
commit_tree(r) == IF r = "r1" THEN "root1" ELSE "root2"
TreeOids == {TreeOid} \cup {commit_tree(r) : r \in Revs}
\* the worker threads of the rayon pool
Workers == {"w1", "w2"}

\* one entry of a tree walk: git2::TreeEntry (kind, id, name_bytes)
Entries ==
    [kind : {"blob"}, id : Oids, name : Filenames]
        \cup [kind : {"tree"}, id : {TreeOid}, name : {<<1>>}]

RECURSIVE SeqsUpTo(_, _)
SeqsUpTo(S, n) ==
    IF n = 0 THEN {<<>>}
    ELSE LET shorter == SeqsUpTo(S, n - 1)
         IN  shorter \cup {Append(s, x) : s \in {t \in shorter : Len(t) = n - 1}, x \in S}

VARIABLES
    repo_tree,      \* commit -> pre-order sequence of its tree's entries
    odb,            \* blob id -> "text" | "binary" | "missing" (find_object fails)
    args_depth,     \* CmdArgs.depth
    run,            \* which execution of the program this is
    main_pc,        \* position of main()
    rev_state,      \* sled tree "revs"
    revs_inserted,  \* number of db.insert calls of the current history walk
    oids,           \* sled tree "oids" (rendered)
    oids_todo,      \* sled tree "oids_todo" (pending)
    oids_dlq,       \* sled tree "oids_dlq" (dead letter)
    walk_pc,        \* per walk task (one per rev): position inside the closure
    walk_idx,       \* per walk task: index of the entry being visited
    render_left,    \* pending keys the render stage has not yet processed
    merged,         \* history: <<oid, filename>> merges applied in this run
    dlq_past,       \* history: oids dead-lettered in an earlier run
    oids_prev,      \* history: the rendered tree when the previous run ended
    odb_prev,       \* history: the object store the previous run saw
    m_pc, m_old, m_fname, m_once, m_twice,  \* the merge operator on its own
    faults,         \* number of store-write errors injected so far
    walk_aborted,   \* history: <<run, rev>> whose walk returned TreeWalkResult::Abort
    render_failed,  \* history: <<run, oid>> whose render_text_blob returned Err
    tree_pages,     \* tree id -> number of listing pages written for it
    l_pc, l_self, l_dirs, l_tree, l_result, \* relative_link on its own
    t_stage,        \* the parallel stage the thread pool is serving
    t_items,        \* work items of the stage not yet taken by a thread
    t_pending,      \* work items the render stage will have
    tl_walk,        \* the ThreadLocal of determine_oids_to_render: thread -> handle
    tl_render,      \* the ThreadLocal of render_text_blobs: thread -> handle
    opened,         \* history: thread -> number of Repository::open calls
    used_by         \* history: <<handle, thread>> for every use of a handle

pipeline_vars ==
    <<repo_tree, odb, args_depth, run, main_pc, rev_state, revs_inserted, oids,
      oids_todo, oids_dlq, walk_pc, walk_idx, render_left, merged, dlq_past,
      oids_prev, odb_prev>>
merge_vars == <<m_pc, m_old, m_fname, m_once, m_twice>>
fault_vars == <<faults, walk_aborted, render_failed>>
page_vars == <<tree_pages>>
link_vars == <<l_pc, l_self, l_dirs, l_tree, l_result>>
thread_vars == <<t_stage, t_items, t_pending, tl_walk, tl_render, opened, used_by>>
vars == <<pipeline_vars, merge_vars, fault_vars, page_vars, link_vars, thread_vars>>

\* the parts of the state a specification does not exercise
FaultsOff == faults = 0 /\ walk_aborted = {} /\ render_failed = {}
NoPages == tree_pages = [t \in TreeOids |-> 0]
LinkOff == l_pc = "off" /\ l_self = <<>> /\ l_dirs = <<>> /\ l_tree = TreeOid /\ l_result = {}
ThreadsOff ==
    /\ t_stage = "off"
    /\ t_items = 0
    /\ t_pending = 0
    /\ tl_walk = [t \in Workers |-> {}]
    /\ tl_render = [t \in Workers |-> {}]
    /\ opened = [t \in Workers |-> 0]
    /\ used_by = {}

(* ------------------------------ sled ----------------------------------- *)
\* a sled::Tree is a finite map; these are its point operations
EmptyTree == [x \in {} |-> <<>>]
contains_key(tree, k) == k \in DOMAIN tree
sled_insert(tree, k, v) == [x \in DOMAIN tree \cup {k} |-> IF x = k THEN v ELSE tree[x]]
\* Option<&[u8]>: {} is None, {v} is Some(v)
sled_get(tree, k) == IF k \in DOMAIN tree THEN {tree[k]} ELSE {}

(* ----------------------- sled_helpers.rs ------------------------------- *)
\* slice::split(|c| c == &0): the segments between NUL bytes
RECURSIVE split(_)
split(s) ==
    IF s = <<>> THEN << <<>> >>
    ELSE LET rest == split(Tail(s))
         IN  IF Head(s) = 0 THEN << <<>> >> \o rest
             ELSE << <<Head(s)>> \o Head(rest) >> \o Tail(rest)

\* variant of concatenate_merge without the scan of lines 11-15
concatenate_merge_always_append(key, old_value, merged_bytes) ==
    LET ret == IF old_value = {} THEN <<>> ELSE CHOOSE v \in old_value : TRUE
    IN  (IF Len(ret) > 0 THEN Append(ret, 0) ELSE ret) \o merged_bytes

concatenate_merge(key, old_value, merged_bytes) ==
    LET ret == IF old_value = {} THEN <<>> ELSE CHOOSE v \in old_value : TRUE
        segs == split(ret)
    IN  IF \E i \in DOMAIN segs : segs[i] = merged_bytes
        THEN ret
        ELSE (IF Len(ret) > 0 THEN Append(ret, 0) ELSE ret) \o merged_bytes

\* variant of sled_merge that stores the operand, whatever the tree holds
sled_merge_overwrites(tree, k, v) == sled_insert(tree, k, v)

\* sled::Tree::merge with the registered operator: one atomic read-modify-write
sled_merge(tree, k, v) == sled_insert(tree, k, concatenate_merge(k, sled_get(tree, k), v))

(* ------------------------------ main.rs -------------------------------- *)
entry(r) == repo_tree[r][walk_idx[r]]

\* the revisions the revwalk yields: push_glob("*"), no truncation
revwalk(depth) == Revs

\* serialized_revs_from_repo: db.insert(rev, &[0]) for every rev of the revwalk
serialized_revs_from_repo(db, depth) ==
    [r \in DOMAIN db \cup revwalk(depth) |-> IF r \in revwalk(depth) THEN <<0>> ELSE db[r]]

\* the bytes render_text_blob stores: the highlighted blob, which depends on
\* the blob's content and on the filename used as the syntax hint
rendered_object(oid, filename) == [blob |-> oid, hint |-> filename]

\* filenames.first() of the NUL-split pending value
first_filename(value) == Head(split(value))

\* The repositories: every commit's tree is a sequence of entries, with at
\* most n entries in the whole repository. The program treats commits, blob
\* ids and filenames alike, so of the repositories that differ only by a
\* renaming of them one is kept: the longer tree is r1's, and the first blob
\* entry (r1's tree, then r2's) is o1 under the name <<1>>.
EntryCount(t) == Len(t["r1"]) + Len(t["r2"])
FirstBlobIsCanonical(t) ==
    LET blobs == SelectSeq(t["r1"] \o t["r2"], LAMBDA e : e.kind = "blob")
    IN  blobs = <<>> \/ (blobs[1].id = "o1" /\ blobs[1].name = <<1>>)
Repositories(n) ==
    {t \in [Revs -> SeqsUpTo(Entries, n)] :
        /\ EntryCount(t) <= n
        /\ Len(t["r1"]) >= Len(t["r2"])
        /\ FirstBlobIsCanonical(t)}
\* The object stores: each blob id is text, binary or missing; an id no tree
\* refers to is never looked up, and is taken to be text.
ObjectStores(t) ==
    {d \in [Oids -> ObjKinds] :
        \A o \in Oids :
            (\A r \in Revs : \A i \in DOMAIN t[r] : t[r][i].id # o) => d[o] = "text"}

\* the state when the program is first started: an empty .gawsh.sled, any
\* repository within the bounds, --depth among depths
InitWith(depths, maxlen) ==
    /\ repo_tree \in Repositories(maxlen)
    /\ odb \in ObjectStores(repo_tree)
    /\ args_depth \in depths
    /\ run = 1
    /\ main_pc = "start"
    /\ rev_state = EmptyTree
    /\ revs_inserted = 0
    /\ oids = EmptyTree
    /\ oids_todo = EmptyTree
    /\ oids_dlq = EmptyTree
    /\ walk_pc = [r \in Revs |-> "idle"]
    /\ walk_idx = [r \in Revs |-> 1]
    /\ render_left = {}
    /\ merged = {}
    /\ dlq_past = {}
    /\ oids_prev = EmptyTree
    /\ odb_prev = odb
    /\ m_pc = "off"
    /\ m_old = {}
    /\ m_fname = <<>>
    /\ m_once = <<>>
    /\ m_twice = <<>>
    /\ FaultsOff
    /\ NoPages
    /\ LinkOff
    /\ ThreadsOff

\* --depth left at its default (line 155)
DefaultDepth == 0
Init == InitWith({DefaultDepth}, MaxEntries)

\* main, lines 481-484: the history walker fills revs
main_history_walk ==
    /\ main_pc = "start"
    /\ rev_state' = serialized_revs_from_repo(rev_state, args_depth)
    /\ revs_inserted' = Cardinality(revwalk(args_depth))
    /\ main_pc' = "open_trees"
    /\ UNCHANGED <<repo_tree, odb, args_depth, run, oids, oids_todo, oids_dlq, walk_pc,
                   walk_idx, render_left, merged, dlq_past, oids_prev, odb_prev>>

\* where a walk task stands once it is handed its revision
walk_begin(r) == IF Len(repo_tree[r]) = 0 THEN "finished" ELSE "chk_oids"

\* variant of main_open_trees that clears the rendered tree as well
main_open_trees_clears_rendered ==
    /\ main_pc = "open_trees"
    /\ oids' = EmptyTree
    /\ oids_todo' = EmptyTree
    /\ oids_dlq' = EmptyTree
    /\ merged' = {}
    /\ walk_pc' = [r \in Revs |-> IF contains_key(rev_state, r) THEN walk_begin(r) ELSE "idle"]
    /\ walk_idx' = [r \in Revs |-> 1]
    /\ main_pc' = "walk"
    /\ UNCHANGED <<repo_tree, odb, args_depth, run, rev_state, revs_inserted,
                   render_left, dlq_past, oids_prev, odb_prev>>

\* variant of main_open_trees without the oids_dlq.clear() of line 491
main_open_trees_keeps_dlq ==
    /\ main_pc = "open_trees"
    /\ oids_todo' = EmptyTree
    /\ merged' = {}
    /\ walk_pc' = [r \in Revs |-> IF contains_key(rev_state, r) THEN walk_begin(r) ELSE "idle"]
    /\ walk_idx' = [r \in Revs |-> 1]
    /\ main_pc' = "walk"
    /\ UNCHANGED <<repo_tree, odb, args_depth, run, rev_state, revs_inserted, oids, oids_dlq,
                   render_left, dlq_past, oids_prev, odb_prev>>

\* main, lines 486-492: pending and dead letter are cleared, then
\* determine_oids_to_render hands every key of revs to the pool
main_open_trees ==
    /\ main_pc = "open_trees"
    /\ oids_todo' = EmptyTree
    /\ oids_dlq' = EmptyTree
    /\ merged' = {}
    /\ walk_pc' = [r \in Revs |-> IF contains_key(rev_state, r) THEN walk_begin(r) ELSE "idle"]
    /\ walk_idx' = [r \in Revs |-> 1]
    /\ main_pc' = "walk"
    /\ UNCHANGED <<repo_tree, odb, args_depth, run, rev_state, revs_inserted, oids,
                   render_left, dlq_past, oids_prev, odb_prev>>

\* TreeWalkResult::Ok: the walk moves to the next entry, or ends
walk_next(r) ==
    /\ walk_idx' = [walk_idx EXCEPT ![r] = @ + 1]
    /\ walk_pc' = [walk_pc EXCEPT ![r] =
                      IF walk_idx[r] + 1 > Len(repo_tree[r]) THEN "finished" ELSE "chk_oids"]

walk_goto(r, pc) ==
    /\ walk_pc' = [walk_pc EXCEPT ![r] = pc]
    /\ UNCHANGED walk_idx

\* variant of walk_chk_oids that does not ask the rendered tree
walk_chk_oids_skips_rendered_test(r) ==
    /\ main_pc = "walk"
    /\ walk_pc[r] = "chk_oids"
    /\ IF entry(r).kind = "tree"
       THEN walk_next(r)
       ELSE walk_goto(r, "chk_todo")
    /\ UNCHANGED <<repo_tree, odb, args_depth, run, main_pc, rev_state, revs_inserted, oids,
                   oids_todo, oids_dlq, render_left, merged, dlq_past, oids_prev, odb_prev>>

\* variant of walk_chk_oids that asks the dead-letter tree first
walk_chk_oids_asks_dlq_first(r) ==
    /\ main_pc = "walk"
    /\ walk_pc[r] = "chk_oids"
    /\ IF entry(r).kind = "tree" \/ contains_key(oids_dlq, entry(r).id)
       THEN walk_next(r)
       ELSE walk_goto(r, "chk_todo")
    /\ UNCHANGED <<repo_tree, odb, args_depth, run, main_pc, rev_state, revs_inserted, oids,
                   oids_todo, oids_dlq, render_left, merged, dlq_past, oids_prev, odb_prev>>

\* lines 624-633: a tree entry is skipped; else the rendered tree is asked first
walk_chk_oids(r) ==
    /\ main_pc = "walk"
    /\ walk_pc[r] = "chk_oids"
    /\ IF entry(r).kind = "tree" \/ contains_key(oids, entry(r).id)
       THEN walk_next(r)
       ELSE walk_goto(r, "chk_todo")
    /\ UNCHANGED <<repo_tree, odb, args_depth, run, main_pc, rev_state, revs_inserted, oids,
                   oids_todo, oids_dlq, render_left, merged, dlq_past, oids_prev, odb_prev>>

\* line 634: then the pending tree
walk_chk_todo(r) ==
    /\ main_pc = "walk"
    /\ walk_pc[r] = "chk_todo"
    /\ IF contains_key(oids_todo, entry(r).id)
       THEN walk_next(r)
       ELSE walk_goto(r, "chk_dlq")
    /\ UNCHANGED <<repo_tree, odb, args_depth, run, main_pc, rev_state, revs_inserted, oids,
                   oids_todo, oids_dlq, render_left, merged, dlq_past, oids_prev, odb_prev>>

\* line 635: then the dead-letter tree
walk_chk_dlq(r) ==
    /\ main_pc = "walk"
    /\ walk_pc[r] = "chk_dlq"
    /\ IF contains_key(oids_dlq, entry(r).id)
       THEN walk_next(r)
       ELSE walk_goto(r, "resolve")
    /\ UNCHANGED <<repo_tree, odb, args_depth, run, main_pc, rev_state, revs_inserted, oids,
                   oids_todo, oids_dlq, render_left, merged, dlq_past, oids_prev, odb_prev>>

\* variant of walk_resolve without the return of line 645: an unresolvable
\* object is dead-lettered and then merged into pending as well
walk_resolve_falls_through(r) ==
    /\ main_pc = "walk"
    /\ walk_pc[r] = "resolve"
    /\ IF odb[entry(r).id] = "missing"
       THEN oids_dlq' = sled_insert(oids_dlq, entry(r).id, <<0>>)
       ELSE UNCHANGED oids_dlq
    /\ oids_todo' = sled_merge(oids_todo, entry(r).id, entry(r).name)
    /\ merged' = merged \cup {<<entry(r).id, entry(r).name>>}
    /\ walk_next(r)
    /\ UNCHANGED <<repo_tree, odb, args_depth, run, main_pc, rev_state, revs_inserted, oids,
                   render_left, dlq_past, oids_prev, odb_prev>>

\* variant of walk_resolve without the insert of line 644: an unresolvable
\* object is logged and skipped
walk_resolve_skips_dlq_insert(r) ==
    /\ main_pc = "walk"
    /\ walk_pc[r] = "resolve"
    /\ IF odb[entry(r).id] = "missing"
       THEN UNCHANGED <<oids_dlq, oids_todo, merged>>
       ELSE /\ oids_todo' = sled_merge(oids_todo, entry(r).id, entry(r).name)
            /\ merged' = merged \cup {<<entry(r).id, entry(r).name>>}
            /\ UNCHANGED oids_dlq
    /\ walk_next(r)
    /\ UNCHANGED <<repo_tree, odb, args_depth, run, main_pc, rev_state, revs_inserted, oids,
                   render_left, dlq_past, oids_prev, odb_prev>>

\* lines 642-659: an unresolvable object is dead-lettered, any other object
\* has its filename merged into pending
walk_resolve(r) ==
    /\ main_pc = "walk"
    /\ walk_pc[r] = "resolve"
    /\ IF odb[entry(r).id] = "missing"
       THEN /\ oids_dlq' = sled_insert(oids_dlq, entry(r).id, <<0>>)
            /\ UNCHANGED <<oids_todo, merged>>
       ELSE /\ oids_todo' = sled_merge(oids_todo, entry(r).id, entry(r).name)
            /\ merged' = merged \cup {<<entry(r).id, entry(r).name>>}
            /\ UNCHANGED oids_dlq
    /\ walk_next(r)
    /\ UNCHANGED <<repo_tree, odb, args_depth, run, main_pc, rev_state, revs_inserted, oids,
                   render_left, dlq_past, oids_prev, odb_prev>>

\* variant of main_start_render that does not wait for the walk tasks
main_start_render_no_barrier ==
    /\ main_pc = "walk"
    /\ main_pc' = "render"
    /\ render_left' = DOMAIN oids_todo
    /\ UNCHANGED <<repo_tree, odb, args_depth, run, rev_state, revs_inserted, oids, oids_todo,
                   oids_dlq, walk_pc, walk_idx, merged, dlq_past, oids_prev, odb_prev>>

\* lines 492-494: try_for_each returns once every walk task has ended; main
\* then calls render_text_blobs, which iterates the pending tree
main_start_render ==
    /\ main_pc = "walk"
    /\ \A r \in Revs : walk_pc[r] \in {"idle", "finished"}
    /\ main_pc' = "render"
    /\ render_left' = DOMAIN oids_todo
    /\ walk_pc' = [r \in Revs |-> "idle"]
    /\ UNCHANGED <<repo_tree, odb, args_depth, run, rev_state, revs_inserted, oids, oids_todo,
                   oids_dlq, walk_idx, merged, dlq_past, oids_prev, odb_prev>>

\* variant of render_text_blob without the insert of line 765
render_text_blob_writes_nothing(o) ==
    /\ main_pc = "render"
    /\ o \in render_left
    /\ render_left' = render_left \ {o}
    /\ IF odb[o] = "missing" THEN main_pc' = "exit_err" ELSE UNCHANGED main_pc
    /\ UNCHANGED <<repo_tree, odb, args_depth, run, rev_state, revs_inserted, oids, oids_todo,
                   oids_dlq, walk_pc, walk_idx, merged, dlq_past, oids_prev, odb_prev>>

\* variant of render_text_blob without the is_binary test of lines 730-732
render_text_blob_no_binary_test(o) ==
    /\ main_pc = "render"
    /\ o \in render_left
    /\ render_left' = render_left \ {o}
    /\ IF odb[o] = "missing"
       THEN /\ main_pc' = "exit_err"
            /\ UNCHANGED oids
       ELSE /\ UNCHANGED main_pc
            /\ oids' = sled_insert(oids, o, rendered_object(o, first_filename(oids_todo[o])))
    /\ UNCHANGED <<repo_tree, odb, args_depth, run, rev_state, revs_inserted, oids_todo,
                   oids_dlq, walk_pc, walk_idx, merged, dlq_past, oids_prev, odb_prev>>

\* lines 684-717 and render_text_blob: one pending item is rendered
render_text_blob(o) ==
    /\ main_pc = "render"
    /\ o \in render_left
    /\ render_left' = render_left \ {o}
    /\ IF odb[o] = "missing"
       THEN /\ main_pc' = "exit_err"
            /\ UNCHANGED oids
       ELSE /\ UNCHANGED main_pc
            /\ IF odb[o] = "binary"
               THEN UNCHANGED oids
               ELSE oids' = sled_insert(oids, o, rendered_object(o, first_filename(oids_todo[o])))
    /\ UNCHANGED <<repo_tree, odb, args_depth, run, rev_state, revs_inserted, oids_todo,
                   oids_dlq, walk_pc, walk_idx, merged, dlq_past, oids_prev, odb_prev>>

\* lines 494-528: every render task has ended, main returns Ok. The loop of
\* the tree assembler (lines 500-524) is commented out, and the bodies of
\* render_commit_to_disk and render_tree_to_disk (lines 793-851) write
\* nothing: no step of the program changes tree_pages.
main_done ==
    /\ main_pc = "render"
    /\ render_left = {}
    /\ main_pc' = "done"
    /\ UNCHANGED <<repo_tree, odb, args_depth, run, rev_state, revs_inserted, oids, oids_todo,
                   oids_dlq, walk_pc, walk_idx, render_left, merged, dlq_past, oids_prev,
                   odb_prev>>

\* the program is started again on the same .gawsh.sled and repository
restart(new_odb) ==
    /\ main_pc \in {"done", "exit_err"}
    /\ run < MaxRuns
    /\ run' = run + 1
    /\ main_pc' = "start"
    /\ odb' = new_odb
    /\ odb_prev' = odb
    /\ oids_prev' = oids
    /\ dlq_past' = dlq_past \cup DOMAIN oids_dlq
    /\ render_left' = {}
    /\ UNCHANGED <<repo_tree, args_depth, rev_state, revs_inserted, oids, oids_todo, oids_dlq,
                   walk_pc, walk_idx, merged>>

run_again == restart(odb)

\* between two runs a blob that could not be resolved is added to the
\* object store
run_again_object_appears(o) ==
    /\ odb[o] = "missing"
    /\ restart([odb EXCEPT ![o] = "text"])

Next ==
    \/ (main_history_walk /\ UNCHANGED <<merge_vars, fault_vars, page_vars, link_vars, thread_vars>>)
    \/ (main_open_trees /\ UNCHANGED <<merge_vars, fault_vars, page_vars, link_vars, thread_vars>>)
    \/ \E r \in Revs : (walk_chk_oids(r) /\ UNCHANGED <<merge_vars, fault_vars, page_vars, link_vars, thread_vars>>)
    \/ \E r \in Revs : (walk_chk_todo(r) /\ UNCHANGED <<merge_vars, fault_vars, page_vars, link_vars, thread_vars>>)
    \/ \E r \in Revs : (walk_chk_dlq(r) /\ UNCHANGED <<merge_vars, fault_vars, page_vars, link_vars, thread_vars>>)
    \/ \E r \in Revs : (walk_resolve(r) /\ UNCHANGED <<merge_vars, fault_vars, page_vars, link_vars, thread_vars>>)
    \/ (main_start_render /\ UNCHANGED <<merge_vars, fault_vars, page_vars, link_vars, thread_vars>>)
    \/ \E o \in Oids : (render_text_blob(o) /\ UNCHANGED <<merge_vars, fault_vars, page_vars, link_vars, thread_vars>>)
    \/ (main_done /\ UNCHANGED <<merge_vars, fault_vars, page_vars, link_vars, thread_vars>>)
    \/ (run_again /\ UNCHANGED <<merge_vars, fault_vars, page_vars, link_vars, thread_vars>>)
    \/ \E o \in Oids : (run_again_object_appears(o) /\ UNCHANGED <<merge_vars, fault_vars, page_vars, link_vars, thread_vars>>)

Spec == Init /\ [][Next]_vars

\* the same program started with any --depth up to MaxDepth
InitDepth == InitWith(0..MaxDepth, MaxEntries)
SpecDepth == InitDepth /\ [][Next]_vars

(* ----------------------- store-write errors ---------------------------- *)
\* variant of walk_resolve_merge_fails in which the aborted traversal is an
\* error of the task, which try_for_each and main hand on
walk_resolve_merge_fails_exits(r) ==
    /\ main_pc = "walk"
    /\ walk_pc[r] = "resolve"
    /\ odb[entry(r).id] # "missing"
    /\ faults < MaxFaults
    /\ faults' = faults + 1
    /\ walk_aborted' = walk_aborted \cup {<<run, r>>}
    /\ walk_pc' = [walk_pc EXCEPT ![r] = "finished"]
    /\ main_pc' = "exit_err"
    /\ UNCHANGED <<repo_tree, odb, args_depth, run, rev_state, revs_inserted, oids,
                   oids_todo, oids_dlq, walk_idx, render_left, merged, dlq_past, oids_prev,
                   odb_prev, render_failed>>

\* lines 648-654 when oid_todo_db.merge returns Err: nothing is stored, the
\* error is logged and the callback returns TreeWalkResult::Abort. Tree::walk
\* of git2 stops the traversal there and returns Ok(()) (it does not look at
\* the result of git_tree_walk), so the task ends without an error and the
\* entries after this one are not visited.
walk_resolve_merge_fails(r) ==
    /\ main_pc = "walk"
    /\ walk_pc[r] = "resolve"
    /\ odb[entry(r).id] # "missing"
    /\ faults < MaxFaults
    /\ faults' = faults + 1
    /\ walk_aborted' = walk_aborted \cup {<<run, r>>}
    /\ walk_pc' = [walk_pc EXCEPT ![r] = "finished"]
    /\ UNCHANGED <<repo_tree, odb, args_depth, run, main_pc, rev_state, revs_inserted, oids,
                   oids_todo, oids_dlq, walk_idx, render_left, merged, dlq_past, oids_prev,
                   odb_prev, render_failed>>

\* line 765 when db.insert returns Err: render_text_blob returns the error
\* (the ? of line 765), try_for_each of line 684 hands out no further item
\* and returns it, and main returns it (the ? of line 494)
render_text_blob_insert_fails(o) ==
    /\ main_pc = "render"
    /\ o \in render_left
    /\ odb[o] = "text"
    /\ faults < MaxFaults
    /\ faults' = faults + 1
    /\ render_failed' = render_failed \cup {<<run, o>>}
    /\ render_left' = render_left \ {o}
    /\ main_pc' = "exit_err"
    /\ UNCHANGED <<repo_tree, odb, args_depth, run, rev_state, revs_inserted, oids,
                   oids_todo, oids_dlq, walk_pc, walk_idx, merged, dlq_past, oids_prev,
                   odb_prev, walk_aborted>>

\* one execution of the program in which store writes may fail
NextFault ==
    \/ (main_history_walk /\ UNCHANGED <<fault_vars, merge_vars, page_vars, link_vars, thread_vars>>)
    \/ (main_open_trees /\ UNCHANGED <<fault_vars, merge_vars, page_vars, link_vars, thread_vars>>)
    \/ \E r \in Revs : (walk_chk_oids(r) /\ UNCHANGED <<fault_vars, merge_vars, page_vars, link_vars, thread_vars>>)
    \/ \E r \in Revs : (walk_chk_todo(r) /\ UNCHANGED <<fault_vars, merge_vars, page_vars, link_vars, thread_vars>>)
    \/ \E r \in Revs : (walk_chk_dlq(r) /\ UNCHANGED <<fault_vars, merge_vars, page_vars, link_vars, thread_vars>>)
    \/ \E r \in Revs : (walk_resolve(r) /\ UNCHANGED <<fault_vars, merge_vars, page_vars, link_vars, thread_vars>>)
    \/ \E r \in Revs : (walk_resolve_merge_fails(r) /\ UNCHANGED <<merge_vars, page_vars, link_vars, thread_vars>>)
    \/ (main_start_render /\ UNCHANGED <<fault_vars, merge_vars, page_vars, link_vars, thread_vars>>)
    \/ \E o \in Oids : (render_text_blob(o) /\ UNCHANGED <<fault_vars, merge_vars, page_vars, link_vars, thread_vars>>)
    \/ \E o \in Oids : (render_text_blob_insert_fails(o) /\ UNCHANGED <<merge_vars, page_vars, link_vars, thread_vars>>)
    \/ (main_done /\ UNCHANGED <<fault_vars, merge_vars, page_vars, link_vars, thread_vars>>)

SpecFault == Init /\ [][NextFault]_vars

(* ------------------- the merge operator on its own --------------------- *)
\* stored values: absent, or any byte string (every NUL-joined list is one)
OldValues == {{}} \cup {{v} : v \in SeqsUpTo({0, 1, 2}, MaxValLen)}
\* filenames: non-empty and free of NUL, as git tree entries are
MergeNames == SeqsUpTo({1, 2}, MaxNameLen) \ {<<>>}

InitMerge ==
    /\ repo_tree = [r \in Revs |-> <<>>]
    /\ odb = [o \in Oids |-> "text"]
    /\ args_depth = DefaultDepth
    /\ run = 1
    /\ main_pc = "off"
    /\ rev_state = EmptyTree
    /\ revs_inserted = 0
    /\ oids = EmptyTree
    /\ oids_todo = EmptyTree
    /\ oids_dlq = EmptyTree
    /\ walk_pc = [r \in Revs |-> "idle"]
    /\ walk_idx = [r \in Revs |-> 1]
    /\ render_left = {}
    /\ merged = {}
    /\ dlq_past = {}
    /\ oids_prev = EmptyTree
    /\ odb_prev = odb
    /\ m_pc = "start"
    /\ m_old \in OldValues
    /\ m_fname \in MergeNames
    /\ m_once = <<>>
    /\ m_twice = <<>>
    /\ FaultsOff
    /\ NoPages
    /\ LinkOff
    /\ ThreadsOff

\* the operator applied to the stored value
merge_first ==
    /\ m_pc = "start"
    /\ m_once' = concatenate_merge("o1", m_old, m_fname)
    /\ m_pc' = "once"
    /\ UNCHANGED <<m_old, m_fname, m_twice>>

\* the operator applied again, to what the first application stored
merge_second ==
    /\ m_pc = "once"
    /\ m_twice' = concatenate_merge("o1", {m_once}, m_fname)
    /\ m_pc' = "twice"
    /\ UNCHANGED <<m_old, m_fname, m_once>>

NextMerge ==
    \/ (merge_first /\ UNCHANGED <<pipeline_vars, fault_vars, page_vars, link_vars, thread_vars>>)
    \/ (merge_second /\ UNCHANGED <<pipeline_vars, fault_vars, page_vars, link_vars, thread_vars>>)

SpecMerge == InitMerge /\ [][NextMerge]_vars

(* --------------------- relative_link on its own ------------------------ *)
\* A path or string is a sequence of characters; "/" is the separator.
\* Oid's Display: the hex digits of the id (two stand for the forty)
to_string(oid) ==
    CASE oid = "o1" -> <<"f", "5">>
      [] oid = "o2" -> <<"0", "4">>
      [] oid = TreeOid -> <<"7", "b">>
      [] oid = "root1" -> <<"1", "d">>
      [] oid = "root2" -> <<"3", "e">>

\* PathBuf::push: an absolute path replaces the buffer; otherwise a
\* separator is added unless the buffer is empty or ends with one
push(buf, path) ==
    IF path # <<>> /\ Head(path) = "/" THEN path
    ELSE IF buf = <<>> \/ buf[Len(buf)] = "/" THEN buf \o path
    ELSE buf \o <<"/">> \o path

\* Path::iter: the root, if the path is absolute, then the non-empty
\* segments between separators
RECURSIVE segments(_)
segments(path) ==
    IF path = <<>> THEN << <<>> >>
    ELSE LET rest == segments(Tail(path))
         IN  IF Head(path) = "/" THEN << <<>> >> \o rest
             ELSE << <<Head(path)>> \o Head(rest) >> \o Tail(rest)
iter(path) ==
    (IF path # <<>> /\ Head(path) = "/" THEN << <<"/">> >> ELSE <<>>)
        \o SelectSeq(segments(path), LAMBDA c : c # <<>>)

RECURSIVE push_all(_, _)
push_all(buf, eles) ==
    IF eles = <<>> THEN buf ELSE push_all(push(buf, Head(eles)), Tail(eles))

\* variant of relative_link that writes the entry's own id into the path
relative_link_of_own_oid(self, tree) ==
    IF self.variant \in {"TextFile", "Tree"}
    THEN LET pb1 == push(<<>>, <<"t", "r", "e", "e">>)
             pb2 == push(pb1, to_string(self.oid))
             pb3 == push_all(pb2, iter(self.topography))
         IN  {push(pb3, self.name)}
    ELSE {}

\* RenderableTreeObject::relative_link, lines 313-337; Option<String> as a
\* set. The path holds only what was pushed, which is valid UTF-8, so
\* to_string_lossy replaces nothing.
relative_link(self, tree) ==
    IF self.variant \in {"TextFile", "Tree"}
    THEN LET pb1 == push(<<>>, <<"t", "r", "e", "e">>)
             pb2 == push(pb1, to_string(tree))
             pb3 == push_all(pb2, iter(self.topography))
         IN  {push(pb3, self.name)}
    ELSE {}

\* names of tree entries: non-empty, without a separator
LinkNames == SeqsUpTo({"a", "b"}, MaxNameLen) \ {<<>>}
Variants == {"Tree", "TextFile", "BinaryFile"}

\* lines 545-550: the topography of an entry is the path of the directories
\* above it, each pushed onto the topography of its parent
topography_of(dirs) == push_all(<<>>, dirs)

InitLink ==
    /\ repo_tree = [r \in Revs |-> <<>>]
    /\ odb = [o \in Oids |-> "text"]
    /\ args_depth = DefaultDepth
    /\ run = 1
    /\ main_pc = "off"
    /\ rev_state = EmptyTree
    /\ revs_inserted = 0
    /\ oids = EmptyTree
    /\ oids_todo = EmptyTree
    /\ oids_dlq = EmptyTree
    /\ walk_pc = [r \in Revs |-> "idle"]
    /\ walk_idx = [r \in Revs |-> 1]
    /\ render_left = {}
    /\ merged = {}
    /\ dlq_past = {}
    /\ oids_prev = EmptyTree
    /\ odb_prev = odb
    /\ m_pc = "off"
    /\ m_old = {}
    /\ m_fname = <<>>
    /\ m_once = <<>>
    /\ m_twice = <<>>
    /\ FaultsOff
    /\ NoPages
    /\ ThreadsOff
    /\ l_pc = "start"
    /\ l_dirs \in SeqsUpTo(LinkNames, MaxTopo)
    /\ l_self \in [variant : Variants, oid : Oids, name : LinkNames,
                    topography : {topography_of(l_dirs)}]
    /\ l_tree \in {TreeOid, commit_tree("r1")}
    /\ l_result = {}

\* obj.relative_link(tree_oid), as the tree view calls it (line 123)
call_relative_link ==
    /\ l_pc = "start"
    /\ l_result' = relative_link(l_self, l_tree)
    /\ l_pc' = "done"
    /\ UNCHANGED <<l_self, l_dirs, l_tree>>

NextLink ==
    call_relative_link /\ UNCHANGED <<pipeline_vars, merge_vars, fault_vars, page_vars, thread_vars>>

SpecLink == InitLink /\ [][NextLink]_vars

(* ------------------ the thread pool and its handles -------------------- *)
\* ThreadLocal::get_or(|| Repository::open(..)): the calling thread's value,
\* constructed if the thread has none in this ThreadLocal
new_handle(t) == [by |-> t, no |-> opened[t] + 1]
get_or(tl, t) == IF tl[t] = {} THEN new_handle(t) ELSE CHOOSE h \in tl[t] : TRUE

InitThreads ==
    /\ repo_tree = [r \in Revs |-> <<>>]
    /\ odb = [o \in Oids |-> "text"]
    /\ args_depth = DefaultDepth
    /\ run = 1
    /\ main_pc = "off"
    /\ rev_state = EmptyTree
    /\ revs_inserted = 0
    /\ oids = EmptyTree
    /\ oids_todo = EmptyTree
    /\ oids_dlq = EmptyTree
    /\ walk_pc = [r \in Revs |-> "idle"]
    /\ walk_idx = [r \in Revs |-> 1]
    /\ render_left = {}
    /\ merged = {}
    /\ dlq_past = {}
    /\ oids_prev = EmptyTree
    /\ odb_prev = odb
    /\ m_pc = "off"
    /\ m_old = {}
    /\ m_fname = <<>>
    /\ m_once = <<>>
    /\ m_twice = <<>>
    /\ FaultsOff
    /\ NoPages
    /\ LinkOff
    /\ t_stage = "walk"
    /\ t_items \in 0..MaxItems
    /\ t_pending \in 0..MaxItems
    /\ tl_walk = [t \in Workers |-> {}]
    /\ tl_render = [t \in Workers |-> {}]
    /\ opened = [t \in Workers |-> 0]
    /\ used_by = {}

\* lines 617-619: a pool thread takes a revision and gets its handle from
\* the ThreadLocal of determine_oids_to_render (line 612)
walk_task(t) ==
    /\ t_stage = "walk"
    /\ t_items > 0
    /\ t_items' = t_items - 1
    /\ tl_walk' = [tl_walk EXCEPT ![t] = {get_or(tl_walk, t)}]
    /\ opened' = [opened EXCEPT ![t] = IF tl_walk[t] = {} THEN @ + 1 ELSE @]
    /\ used_by' = used_by \cup {<<get_or(tl_walk, t), t>>}
    /\ UNCHANGED <<t_stage, t_pending, tl_render>>

\* lines 663-664, 683-684: determine_oids_to_render returns and its
\* ThreadLocal is dropped with the handles it holds; render_text_blobs
\* makes a ThreadLocal of its own and iterates pending
walk_stage_ends ==
    /\ t_stage = "walk"
    /\ t_items = 0
    /\ t_stage' = "render"
    /\ t_items' = t_pending
    /\ tl_walk' = [t \in Workers |-> {}]
    /\ UNCHANGED <<t_pending, tl_render, opened, used_by>>

\* lines 684, 728: a pool thread takes a pending item and gets its handle
\* from the ThreadLocal of render_text_blobs (line 683)
render_task(t) ==
    /\ t_stage = "render"
    /\ t_items > 0
    /\ t_items' = t_items - 1
    /\ tl_render' = [tl_render EXCEPT ![t] = {get_or(tl_render, t)}]
    /\ opened' = [opened EXCEPT ![t] = IF tl_render[t] = {} THEN @ + 1 ELSE @]
    /\ used_by' = used_by \cup {<<get_or(tl_render, t), t>>}
    /\ UNCHANGED <<t_stage, t_pending, tl_walk>>

\* lines 717-718: render_text_blobs returns and its ThreadLocal is dropped
render_stage_ends ==
    /\ t_stage = "render"
    /\ t_items = 0
    /\ t_stage' = "over"
    /\ tl_render' = [t \in Workers |-> {}]
    /\ UNCHANGED <<t_items, t_pending, tl_walk, opened, used_by>>

NextThreads ==
    \/ \E t \in Workers : (walk_task(t) /\ UNCHANGED <<pipeline_vars, merge_vars, fault_vars, page_vars, link_vars>>)
    \/ (walk_stage_ends /\ UNCHANGED <<pipeline_vars, merge_vars, fault_vars, page_vars, link_vars>>)
    \/ \E t \in Workers : (render_task(t) /\ UNCHANGED <<pipeline_vars, merge_vars, fault_vars, page_vars, link_vars>>)
    \/ (render_stage_ends /\ UNCHANGED <<pipeline_vars, merge_vars, fault_vars, page_vars, link_vars>>)

SpecThreads == InitThreads /\ [][NextThreads]_vars

(* ----------------------- vocabulary of the claims ---------------------- *)
\* the entries of a commit, and the non-tree entries of the commits in revs
EntriesOf(r) == {repo_tree[r][i] : i \in DOMAIN repo_tree[r]}
BlobEntries ==
    {e \in UNION {EntriesOf(r) : r \in Revs \cap DOMAIN rev_state} : e.kind = "blob"}
ReachableBlobs == {e.id : e \in BlobEntries}
NamesOf(o) == {e.name : e \in {x \in BlobEntries : x.id = o}}
\* the filenames a pending value holds
FilenamesIn(value) == {split(value)[i] : i \in DOMAIN split(value)}
\* in how many of pending, rendered and dead letter an oid is a key
Memberships(o) ==
    (IF contains_key(oids_todo, o) THEN 1 ELSE 0)
        + (IF contains_key(oids, o) THEN 1 ELSE 0)
        + (IF contains_key(oids_dlq, o) THEN 1 ELSE 0)
\* the walk stage of the current run has begun (pending was cleared)
WalkBegun == main_pc \in {"walk", "render", "done"}
\* the object store is the one the previous run saw
RepoUnchanged == odb = odb_prev
NoBinaryBlob == \A o \in ReachableBlobs : odb[o] # "binary"
AllBlobsText == \A o \in ReachableBlobs : odb[o] = "text"

(* -------------------------------- C1 ----------------------------------- *)
\* C1 (as claimed): when a run has ended, every OID is a key of at most one
\* of pending, rendered and dead letter.
C1_MutualExclusivity ==
    main_pc = "done" => \A o \in Oids : Memberships(o) <= 1

(* -------------------------------- C2 ----------------------------------- *)
\* C2 (as claimed): an OID dead-lettered in an earlier run is never a key of
\* pending or of rendered afterwards.
C2_DeadLetterTerminal ==
    \A o \in dlq_past : ~contains_key(oids_todo, o) /\ ~contains_key(oids, o)

\* C2 (amended): no step inserts into pending or rendered an OID that is
\* a key of dead letter when the step is taken; dead letter only loses a key
\* when main clears it at the start of the next run.
C2_DeadLetterTerminalWithinRun ==
    [][\A o \in Oids :
          contains_key(oids_dlq, o) =>
              /\ ~contains_key(oids_todo', o)
              /\ ~contains_key(oids', o)
              /\ (contains_key(oids_dlq', o) \/ main_pc = "open_trees")]_vars

\* a walk task that passed the three membership tests before another task
\* dead-lettered the same OID is about to act on it
C2_Witness ==
    \E r \in Revs :
        /\ main_pc = "walk"
        /\ walk_pc[r] = "resolve"
        /\ contains_key(oids_dlq, entry(r).id)

(* -------------------------------- C3 ----------------------------------- *)
\* C3 (as claimed): in a run that follows a complete run over an unchanged
\* repository, the walk stage merges nothing into pending.
C3_SecondRunNoPending ==
    (run >= 2 /\ RepoUnchanged /\ WalkBegun) => (merged = {} /\ DOMAIN oids_todo = {})

\* C3 (amended): the same, for repositories without a binary blob.
C3_SecondRunNoPendingText ==
    (run >= 2 /\ RepoUnchanged /\ WalkBegun /\ NoBinaryBlob)
        => (merged = {} /\ DOMAIN oids_todo = {})

\* a second run over an unchanged repository with a rendered blob and no
\* binary blob has ended
C3_Witness ==
    /\ run = 2 /\ main_pc = "done" /\ RepoUnchanged /\ NoBinaryBlob
    /\ \E o \in ReachableBlobs : contains_key(oids, o)
    /\ \E o \in ReachableBlobs : contains_key(oids_dlq, o)

(* -------------------------------- C4 ----------------------------------- *)
\* C4: when a run that follows a run over an unchanged repository has ended,
\* the rendered tree has the keys and values it had when the earlier run ended.
C4_RunIdempotent ==
    (run >= 2 /\ RepoUnchanged /\ main_pc = "done") => oids = oids_prev

\* the second run has ended over a repository with a binary blob, and a blob
\* rendered in the first run was seen under two filenames
C4_Witness ==
    /\ run = 2 /\ main_pc = "done" /\ RepoUnchanged
    /\ \E o \in ReachableBlobs : odb[o] = "binary"
    /\ \E o \in ReachableBlobs : contains_key(oids, o) /\ Cardinality(NamesOf(o)) = 2

(* -------------------------------- C5 ----------------------------------- *)
\* C5: merging a filename into a stored value a second time leaves the value
\* the first merge produced.
C5_MergeIdempotent ==
    m_pc = "twice" => m_twice = m_once

\* the first merge appended to an existing value
C5_Witness ==
    /\ m_pc = "twice"
    /\ m_old # {}
    /\ \A v \in m_old : Len(v) > 0 /\ Len(m_once) = Len(v) + 1 + Len(m_fname)

(* -------------------------------- C6 ----------------------------------- *)
\* C6 (as claimed): when the walk stage has ended, the pending entry of an OID
\* holds every filename under which the walked commits contain that OID.
C6_BothFilenames ==
    main_pc = "render" =>
        \A o \in DOMAIN oids_todo : NamesOf(o) \subseteq FilenamesIn(oids_todo[o])

(* -------------------------------- C7 ----------------------------------- *)
\* C7 (as claimed): after a run over a repository whose blobs are all
\* resolvable and textual, pending and dead letter are empty.
C7_EndOfRunEmpty ==
    (main_pc = "done" /\ AllBlobsText) => (DOMAIN oids_todo = {} /\ DOMAIN oids_dlq = {})

(* -------------------------------- C8 ----------------------------------- *)
\* C8: when a run has ended, the keys of rendered are exactly the resolvable
\* text blobs of the walked commits, each stored once, as the rendering of
\* that blob under one of its filenames.
C8_OneEntryPerTextBlob ==
    main_pc = "done" =>
        /\ DOMAIN oids = {o \in ReachableBlobs : odb[o] = "text"}
        /\ \A o \in DOMAIN oids : \E f \in NamesOf(o) : oids[o] = rendered_object(o, f)

\* scenario B: a text blob present in both commits and a second text blob
C8_Witness ==
    /\ main_pc = "done"
    /\ \E o \in Oids :
          /\ \A r \in Revs : \E e \in EntriesOf(r) : e.kind = "blob" /\ e.id = o
          /\ contains_key(oids, o)
    /\ Cardinality(DOMAIN oids) = 2

(* -------------------------------- C9 ----------------------------------- *)
\* C9: when a run has ended, every unresolvable blob of the walked commits is
\* a key of dead letter and of neither pending nor rendered, every walk task
\* has visited all its entries, and every resolvable text blob is rendered.
C9_UnresolvableEntry ==
    main_pc = "done" =>
        /\ \A o \in ReachableBlobs :
              odb[o] = "missing" =>
                  /\ contains_key(oids_dlq, o)
                  /\ ~contains_key(oids_todo, o)
                  /\ ~contains_key(oids, o)
        /\ \A r \in DOMAIN rev_state : walk_idx[r] = Len(repo_tree[r]) + 1
        /\ \A o \in ReachableBlobs : odb[o] = "text" => contains_key(oids, o)

\* scenario C: a commit whose first entry is unresolvable and whose second
\* entry is a text blob, now rendered
C9_Witness ==
    /\ main_pc = "done"
    /\ \E r \in Revs :
          /\ Len(repo_tree[r]) = 2
          /\ repo_tree[r][1].kind = "blob"
          /\ repo_tree[r][2].kind = "blob"
          /\ odb[repo_tree[r][1].id] = "missing"
          /\ contains_key(oids_dlq, repo_tree[r][1].id)
          /\ contains_key(oids, repo_tree[r][2].id)

(* -------------------------------- C10 ---------------------------------- *)
\* C10 (as claimed): with --depth N > 0 the history walker inserts at most N
\* revisions; with N = 0 it inserts every reachable revision.
C10_DepthBound ==
    main_pc = "open_trees" =>
        /\ args_depth > 0 => revs_inserted <= args_depth
        /\ args_depth = 0 => DOMAIN rev_state = Revs

(* -------------------------------- C11 ---------------------------------- *)
\* the walk of a revision of this run was aborted by a failed pending merge,
\* and no render task of this run failed
WalkAbortedOnly ==
    /\ \E r \in Revs : <<run, r>> \in walk_aborted
    /\ \A o \in Oids : <<run, o>> \notin render_failed

\* C11: when the pending merge of one revision's walk has failed, the
\* process does not exit with an error; once the walk stage is over, the
\* walk task of every other revision has visited all its entries; and when
\* the run has ended the render stage has rendered every pending text blob.
C11_WalkFailureIsolated ==
    WalkAbortedOnly =>
        /\ main_pc # "exit_err"
        /\ main_pc \in {"render", "done"} =>
               \A r \in DOMAIN rev_state :
                   <<run, r>> \notin walk_aborted => walk_idx[r] = Len(repo_tree[r]) + 1
        /\ main_pc = "done" =>
               \A o \in DOMAIN oids_todo : odb[o] = "text" => contains_key(oids, o)

\* the run has ended although the walk of one revision was aborted before
\* its last entry; the blob of the other revision was rendered
C11_Witness ==
    /\ main_pc = "done"
    /\ \E r \in Revs :
          /\ <<run, r>> \in walk_aborted
          /\ walk_idx[r] < Len(repo_tree[r])
    /\ \E r \in Revs :
          /\ <<run, r>> \notin walk_aborted
          /\ \E e \in EntriesOf(r) : e.kind = "blob" /\ contains_key(oids, e.id)

(* -------------------------------- C12 ---------------------------------- *)
\* C12 (as claimed): when the rendering of a pending OID has failed, the
\* process does not exit with an error, and when the run has ended every
\* other pending text blob is rendered.
C12_RenderFailureIsolated ==
    \A o \in Oids :
        <<run, o>> \in render_failed =>
            /\ main_pc # "exit_err"
            /\ main_pc = "done" =>
                   \A p \in DOMAIN oids_todo \ {o} : odb[p] = "text" => contains_key(oids, p)

(* -------------------------------- C13 ---------------------------------- *)
\* C13: the walk stage of a run begins with pending and dead letter empty;
\* the step that empties them leaves rendered and revs as they are, and no
\* step from the start of the run to the start of its walk stage changes
\* rendered or removes a revision.
C13_RunScopedClearing ==
    [][/\ (main_pc # "walk" /\ main_pc' = "walk") =>
              (oids_todo' = EmptyTree /\ oids_dlq' = EmptyTree)
       /\ main_pc = "open_trees" => (oids' = oids /\ rev_state' = rev_state)
       /\ main_pc \in {"start", "open_trees"} =>
              (oids' = oids /\ DOMAIN rev_state \subseteq DOMAIN rev_state')]_vars

\* the walk stage of a second run is about to begin: the first run left
\* rendered entries and dead-lettered an OID, and both trees are empty now
C13_Witness ==
    /\ run = 2 /\ main_pc = "walk"
    /\ \A r \in Revs : walk_idx[r] = 1
    /\ DOMAIN oids # {} /\ oids = oids_prev
    /\ dlq_past # {}
    /\ oids_todo = EmptyTree /\ oids_dlq = EmptyTree

(* -------------------------------- C14 ---------------------------------- *)
\* C14: for an OID that was a key of rendered when the run started, no step
\* of the walk stage makes it a key of pending or merges a filename for it,
\* and in the render stage no task exists for it and its rendered value
\* stays as it is.
C14_NoReRender ==
    [][\A o \in DOMAIN oids_prev :
          /\ main_pc = "walk" =>
                 /\ ~contains_key(oids_todo', o)
                 /\ \A f \in Filenames : <<o, f>> \notin merged'
          /\ main_pc = "render" =>
                 /\ o \notin render_left
                 /\ contains_key(oids', o) /\ oids'[o] = oids[o]]_vars

\* a second run has ended: it walked a blob rendered by the first run and
\* rendered another blob that had been unresolvable before
C14_Witness ==
    /\ run = 2 /\ main_pc = "done"
    /\ \E o \in ReachableBlobs : contains_key(oids_prev, o)
    /\ \E o \in ReachableBlobs : contains_key(oids, o) /\ ~contains_key(oids_prev, o)

(* -------------------------------- C15 ---------------------------------- *)
\* C15: the render task of a pending OID whose blob is binary writes nothing
\* into rendered and does not end the render stage with an error; a binary
\* blob is never a key of rendered.
C15_BinarySkip ==
    [][\A o \in Oids :
          odb[o] = "binary" =>
              /\ ~contains_key(oids', o)
              /\ (main_pc = "render" /\ o \in render_left /\ o \notin render_left') =>
                     (oids' = oids /\ main_pc' = "render")]_vars

\* the run has ended with a binary blob that was pending and has no rendered
\* entry, and a text blob that was rendered
C15_Witness ==
    /\ main_pc = "done"
    /\ \E o \in DOMAIN oids_todo : odb[o] = "binary" /\ ~contains_key(oids, o)
    /\ \E o \in DOMAIN oids_todo : odb[o] = "text" /\ contains_key(oids, o)

(* -------------------------------- C16 ---------------------------------- *)
\* the trees reachable from the walked revisions: the tree of every commit
\* and every entry of kind Tree
ReachableTrees ==
    {commit_tree(r) : r \in DOMAIN rev_state}
        \cup {e.id : e \in {x \in UNION {EntriesOf(r) : r \in DOMAIN rev_state} : x.kind = "tree"}}

\* C16 (as claimed): when a run has ended, exactly one listing page has been
\* written for every tree reachable from the walked revisions.
C16_TreeListingOnce ==
    main_pc = "done" => \A t \in ReachableTrees : tree_pages[t] = 1

(* -------------------------------- C17 ---------------------------------- *)
\* the parts joined by separators
RECURSIVE JoinPath(_)
JoinPath(parts) ==
    IF Len(parts) = 1 THEN parts[1]
    ELSE parts[1] \o <<"/">> \o JoinPath(Tail(parts))

\* C17: for a TextFile or Tree entry relative_link(tree) is the path made of
\* "tree", the hex of the given tree id, the directories of the topography
\* in order and the entry's name, joined by "/"; for a BinaryFile entry it
\* is None. The entry's own id is no part of it.
C17_RelativeLink ==
    l_pc = "done" =>
        IF l_self.variant = "BinaryFile"
        THEN l_result = {}
        ELSE l_result =
                 {JoinPath(<< <<"t", "r", "e", "e">>, to_string(l_tree) >>
                               \o l_dirs \o <<l_self.name>>)}

\* the link of a text file two directories down has been computed
C17_Witness ==
    /\ l_pc = "done"
    /\ l_self.variant = "TextFile"
    /\ Len(l_dirs) = 2
    /\ l_result # {}

(* -------------------------------- C18 ---------------------------------- *)
\* C18: the renderer reads pending only when every walk task of the run has
\* ended; rendered is written in the render stage only, while no walk task
\* is running; and no step of the render stage changes pending or dead
\* letter.
C18_StageBarrier ==
    [][/\ (main_pc = "walk" /\ main_pc' = "render") =>
              \A r \in Revs : walk_pc[r] \in {"idle", "finished"}
       /\ oids' # oids => main_pc = "render"
       /\ main_pc = "render" =>
              /\ \A r \in Revs : walk_pc[r] \in {"idle", "finished"}
              /\ oids_todo' = oids_todo
              /\ oids_dlq' = oids_dlq]_vars

\* the render stage is under way after two walk tasks filled pending and
\* dead letter, and the pending item has been rendered
C18_Witness ==
    /\ main_pc = "render"
    /\ \A r \in Revs : Len(repo_tree[r]) > 0
    /\ DOMAIN oids_dlq # {}
    /\ DOMAIN oids_todo # {} /\ render_left = {}
    /\ DOMAIN oids # {}

(* -------------------------------- C19 ---------------------------------- *)
\* the filename under which the walk meets an OID first when the tasks run
\* one after the other, in the order rev_db.iter() yields the revisions
FirstSeenSequential(o) ==
    LET seen == SelectSeq(repo_tree["r1"] \o repo_tree["r2"],
                          LAMBDA e : e.kind = "blob" /\ e.id = o)
    IN  seen[1].name

\* C19 (as claimed): whatever the interleaving of the tasks, a run ends with
\* the rendered entries it ends with when the tasks run one after the other:
\* each blob rendered in the run is rendered under the filename met first.
C19_OrderIndependent ==
    main_pc = "done" =>
        \A o \in DOMAIN oids \ DOMAIN oids_prev :
            oids[o] = rendered_object(o, FirstSeenSequential(o))

(* -------------------------------- C20 ---------------------------------- *)
\* C20 (as claimed): over the whole run a worker thread constructs at most
\* one object-store handle, and only when it has a work item to serve, and
\* every handle is used only by the thread that constructed it.
C20_OneHandlePerThread ==
    /\ \A t \in Workers : opened[t] <= 1
    /\ \A t \in Workers : opened[t] > 0 => \E u \in used_by : u[2] = t
    /\ \A u \in used_by : u[1].by = u[2]

(* -------------------------------- C21 ---------------------------------- *)
\* the walk task of r takes a step of the callback, and the step ends the
\* visit of the entry (the callback returns TreeWalkResult::Ok)
WalkStep(r) ==
    /\ main_pc = "walk" /\ main_pc' = "walk"
    /\ <<walk_pc'[r], walk_idx'[r]>> # <<walk_pc[r], walk_idx[r]>>
VisitEnds(r) == walk_idx'[r] = walk_idx[r] + 1
\* the step of r is the n-th membership test of a non-tree entry
NthTest(r, n) ==
    /\ WalkStep(r)
    /\ entry(r).kind = "blob"
    /\ walk_pc[r] = <<"chk_oids", "chk_todo", "chk_dlq">>[n]

\* the tests are made on first, second and third, in this order: each test
\* ends the visit exactly when the OID is a key of its tree, and a filename
\* is merged only by a step that follows three tests that found the OID absent
TestOrder(first, second, third) ==
    \A r \in Revs :
        /\ NthTest(r, 1) => (VisitEnds(r) <=> contains_key(first, entry(r).id))
        /\ NthTest(r, 2) => (VisitEnds(r) <=> contains_key(second, entry(r).id))
        /\ NthTest(r, 3) => (VisitEnds(r) <=> contains_key(third, entry(r).id))
        /\ (NthTest(r, 1) /\ ~VisitEnds(r)) => walk_pc'[r] = "chk_todo"
        /\ (NthTest(r, 2) /\ ~VisitEnds(r)) => walk_pc'[r] = "chk_dlq"
        /\ (NthTest(r, 3) /\ ~VisitEnds(r)) => walk_pc'[r] = "resolve"
        /\ (WalkStep(r) /\ (merged' # merged \/ oids_todo' # oids_todo)) =>
               walk_pc[r] = "resolve"

\* C21 (as claimed): the walker tests dead letter first, then rendered, then
\* pending, and merges only after the three tests reported absence.
C21_TestOrderDlqFirst ==
    [][TestOrder(oids_dlq, oids, oids_todo)]_vars

\* C21 (amended): the walker tests rendered first, then pending, then dead
\* letter, and merges only after the three tests reported absence.
C21_TestOrderRenderedFirst ==
    [][TestOrder(oids, oids_todo, oids_dlq)]_vars

\* a walk task has passed its first test with an OID that another task has
\* dead-lettered; only its third test will find it
C21_Witness ==
    \E r \in Revs :
        /\ main_pc = "walk"
        /\ walk_pc[r] = "chk_todo"
        /\ contains_key(oids_dlq, entry(r).id)

(* -------------------------------- C22 ---------------------------------- *)
\* the filenames merged for an OID in this run
MergedNames(o) == {f \in Filenames : <<o, f>> \in merged}

\* C22: when the walk stage is over, pending has an entry for an OID exactly
\* when a filename was merged for it, and the entry's list holds every
\* merged filename once and nothing else, also when two walk tasks both
\* merged for the OID.
C22_NoMergeLost ==
    main_pc \in {"render", "done"} =>
        \A o \in Oids :
            IF MergedNames(o) = {}
            THEN ~contains_key(oids_todo, o)
            ELSE /\ contains_key(oids_todo, o)
                 /\ FilenamesIn(oids_todo[o]) = MergedNames(o)
                 /\ Len(split(oids_todo[o])) = Cardinality(MergedNames(o))

\* the walk stage is over, and two tasks merged different filenames for one
\* OID: each had found it absent before the other merged
C22_Witness ==
    /\ main_pc = "render"
    /\ \E o \in Oids : Cardinality(MergedNames(o)) = 2

(* -------------------------------- C23 ---------------------------------- *)
\* C23: in every state the value of every pending entry splits at its NUL
\* bytes into non-empty filenames (so it neither starts nor ends with a
\* NUL and holds no two in a row), no two of them equal, and they are the
\* filenames merged for the OID, whatever the order of the merges.
C23_PendingValueShape ==
    \A o \in DOMAIN oids_todo :
        LET names == split(oids_todo[o])
        IN  /\ \A i \in DOMAIN names : names[i] # <<>>
            /\ \A i, j \in DOMAIN names : names[i] = names[j] => i = j
            /\ {names[i] : i \in DOMAIN names} = MergedNames(o)

\* a pending entry holds two filenames, the one that comes first in the
\* repository merged last
C23_Witness ==
    \E o \in DOMAIN oids_todo :
        /\ Len(split(oids_todo[o])) = 2
        /\ split(oids_todo[o])[2] = FirstSeenSequential(o)

(* -------------------------------- C24 ---------------------------------- *)
\* C24: when render_text_blobs has returned Ok, no pending item is left to
\* take and every key of pending whose blob is textual is a key of rendered
\* (pending is in the render stage what it was when the stage began).
C24_RenderComplete ==
    main_pc = "done" =>
        /\ render_left = {}
        /\ \A o \in Oids : <<run, o>> \notin render_failed
        /\ \A o \in DOMAIN oids_todo : odb[o] = "text" => contains_key(oids, o)

\* the render stage has ended after rendering two pending text blobs
C24_Witness ==
    /\ main_pc = "done"
    /\ Cardinality({o \in DOMAIN oids_todo : odb[o] = "text" /\ contains_key(oids, o)}) = 2

(* -------------------------------- C25 ---------------------------------- *)
\* C25: when the walk stage is over, every blob of the walked commits is a
\* key of rendered, pending or dead letter: of pending when it resolves and
\* was not rendered when the run started, of dead letter when it does not
\* resolve.
C25_DiscoveryComplete ==
    main_pc = "render" =>
        \A o \in ReachableBlobs :
            /\ Memberships(o) >= 1
            /\ (odb[o] # "missing" /\ ~contains_key(oids_prev, o)) => contains_key(oids_todo, o)
            /\ odb[o] = "missing" => contains_key(oids_dlq, o)

\* the walk stage of a second run is over: one blob had been rendered by the
\* first run, another was queued by this one
C25_Witness ==
    /\ run = 2 /\ main_pc = "render"
    /\ \E o \in ReachableBlobs : contains_key(oids_prev, o) /\ ~contains_key(oids_todo, o)
    /\ \E o \in ReachableBlobs : contains_key(oids_todo, o)

(* -------------------------------- C26 ---------------------------------- *)
\* C26: in every state no OID is a key of dead letter and also a key of
\* pending or of rendered (the object store does not change within a run).
C26_DeadLetterDisjoint ==
    \A o \in DOMAIN oids_dlq : ~contains_key(oids_todo, o) /\ ~contains_key(oids, o)

\* in a second run, with a rendered entry in the store, a walk task that
\* found an unresolvable OID in none of the trees is about to act on it
\* after another task has dead-lettered it
C26_Witness ==
    /\ run = 2 /\ main_pc = "walk"
    /\ DOMAIN oids # {}
    /\ \E r \in Revs :
          /\ walk_pc[r] = "resolve"
          /\ odb[entry(r).id] = "missing"
          /\ contains_key(oids_dlq, entry(r).id)

====
